---- MODULE Spec2Model ----
(***************************************************************************)
(* Shader Keying Set Tools (src/ColorKeys.py): extraction of a keying set  *)
(* from the animated node-tree parameters of the selected materials,       *)
(* replay of a keying set at the current frame, and capture / restore /    *)
(* removal / batch collection of per-scene presets.                        *)
(*                                                                         *)
(* A data path is a sequence of its dot-separated segments, so that        *)
(* "node_tree.s2.default_value" is <<"node_tree","s2","default_value">>.   *)
(* A handler that raises stops where it raises; what it wrote before stays.*)
(***************************************************************************)
EXTENDS Integers, Sequences, FiniteSets, TLC

\* ------------------------------------------------------------------ bounds
MaxPresets == 2      \* the preset store is not grown beyond this size
MaxFrame   == 2      \* frames are 1..MaxFrame
MaxValue   == 1      \* the scalar socket holds 0..MaxValue
MaxAdded   == 1      \* paths the host adds by hand to one keying set

\* ------------------------------------------------------------- host scene
\* Three materials. Materials 1 and 2 have a node tree each (trees 1 and 2),
\* material 3 has none.
Mats  == {1, 2, 3}
Names == {"A", "B", "C", "D"}
None  == 0
Trees == {1, 2}

node_tree(m) == IF m \in Trees THEN m ELSE None

\* Objects and their material slots (None is an empty slot): objects 1 and 2
\* share material 1.
Objs == {1, 2, 3}
material_slots(o) ==
    CASE o = 1 -> <<1>>
      [] o = 2 -> <<None, 1, 3>>
      [] OTHER -> <<2>>

\* Properties of the node tree: a float socket, a colour socket (an array of
\* ArrayLen components) and a boolean node property.
ValueSocket == <<"s1", "default_value">>
ColorSocket == <<"s2", "default_value">>
NodeMute    == <<"n1", "mute">>
TreePaths   == {ValueSocket, ColorSocket, NodeMute}
\* Properties of a material itself: a float and a colour.
Roughness    == <<"roughness">>
DiffuseColor == <<"diffuse_color">>
MatPaths     == {Roughness, DiffuseColor}

ArrayLen == 2
IsArray(p) == p \in {ColorSocket, DiffuseColor}
Length(p)  == IF IsArray(p) THEN ArrayLen ELSE 1

VARIABLES
    matName,              \* bpy.data.materials: material -> its unique name
    default_value,        \* tree -> live value of its float socket s1
    fcurves,              \* tree -> animation_data.action.fcurves,
                          \*   <<>> while the tree has no action
    keying_sets,          \* scene.keying_sets, in creation order
    active_ks,            \* scene.keying_sets.active (a name, "" if none)
    shader_presets,       \* scene.shader_presets
    shader_preset_index,  \* scene.shader_preset_index
    last                  \* the last handler run: what it read from the context
                          \*   (selection, scene.frame_current, text fields)
                          \*   and its results

vars == <<matName, default_value, fcurves, keying_sets,
          active_ks, shader_presets, shader_preset_index, last>>

\* ---------------------------------------------------------------- helpers
Min(a, b) == IF a < b THEN a ELSE b

Range(s) == {s[i] : i \in DOMAIN s}

RECURSIVE Concat(_)
Concat(ss) == IF ss = <<>> THEN <<>> ELSE Head(ss) \o Concat(Tail(ss))

Front(s) == SubSeq(s, 1, Len(s) - 1)

\* str.strip on the names the model uses.
strip(s) == CASE s = " k2 " -> "k2"
              [] s = " "    -> ""
              [] OTHER      -> s

\* dp_full.startswith("node_tree."), dp_full[len("node_tree."):],
\* f"node_tree.{data_path}"
startswith_node_tree(dp) == Len(dp) >= 2 /\ dp[1] = "node_tree"
strip_node_tree(dp)      == Tail(dp)
with_node_tree(dp)       == <<"node_tree">> \o dp
\* dp_full.endswith(".default_value"), tail[:-len(".default_value")]
endswith_default_value(dp) == Len(dp) >= 2 /\ dp[Len(dp)] = "default_value"
strip_default_value(dp)    == Front(dp)

\* scene.keying_sets.get(name): position of the set, 0 if there is none.
ks_get(kss, name) ==
    IF \E i \in DOMAIN kss : kss[i].name = name
    THEN CHOOSE i \in DOMAIN kss : kss[i].name = name
    ELSE 0

\* bpy.data.materials.get(name)
materials_get(names, name) ==
    IF \E m \in Mats : names[m] = name
    THEN CHOOSE m \in Mats : names[m] = name
    ELSE None

\* ------------------------------------------------------- values and JSON
\* A resolved value: a float, a boolean (v is 0 or 1), an array (what
\* path_resolve returns for a colour, whatever the index), or the failure of
\* the resolution.
Float(n)  == [kind |-> "float", v |-> n]
Bool(b)   == [kind |-> "bool",  v |-> b]
Array     == [kind |-> "array", v |-> 0]
Unresolved == [kind |-> "error", v |-> 0]

\* nt.path_resolve(dp) on node tree t (None: attribute access on None fails)
tree_path_resolve(t, dv, dp) ==
    CASE t = None         -> Unresolved
      [] dp = ValueSocket -> Float(dv[t])
      [] dp = ColorSocket -> Array
      [] dp = NodeMute    -> Bool(0)
      [] OTHER            -> Unresolved

\* m.path_resolve(dp_full) on a material
mat_path_resolve(m, dv, dp) ==
    CASE dp = Roughness            -> Float(0)
      [] dp = DiffuseColor         -> Array
      [] startswith_node_tree(dp)  ->
             tree_path_resolve(node_tree(m), dv, strip_node_tree(dp))
      [] OTHER                     -> Unresolved

\* json.dumps / json.loads of one value: numbers print as digits, booleans as
\* true / false; an array object of the host is not JSON serialisable.
Digits == <<"0", "1", "2", "3", "4", "5", "6", "7", "8", "9">>
json_serialisable(val) == val.kind \in {"float", "bool"}
json_dumps_value(val) ==
    IF val.kind = "bool" THEN (IF val.v = 1 THEN "true" ELSE "false")
    ELSE Digits[val.v + 1]
json_loads_value(text) ==
    CASE text = "true"  -> Bool(1)
      [] text = "false" -> Bool(0)
      [] OTHER -> Float((CHOOSE i \in DOMAIN Digits : Digits[i] = text) - 1)

\* values_json: <<>> is the empty string a new item holds, <<recs>> the JSON
\* text of the list recs of records (material, data_path, value text).
EmptyText == <<>>
json_dumps(data) ==
    <<[i \in DOMAIN data |->
         [material  |-> data[i].material,
          data_path |-> data[i].data_path,
          value     |-> json_dumps_value(data[i].value)]]>>
json_loads(text) ==
    [i \in DOMAIN text[1] |->
         [material  |-> text[1][i].material,
          data_path |-> text[1][i].data_path,
          value     |-> json_loads_value(text[1][i].value)]]

\* ------------------------------------------------- extract_shader_keying_set
PathEntry(m, dp, idx) == [id |-> m, data_path |-> dp, array_index |-> idx]

\* lines 35-43: the materials among selected_ids, else the materials in the
\* slots of the selected objects
IdMaterials(ids) ==
    LET mat == SelectSeq(ids, LAMBDA idb : idb.type = "Material")
    IN  [i \in DOMAIN mat |-> mat[i].id]

SlotMaterials(objs) ==
    Concat([i \in DOMAIN objs |->
              SelectSeq(material_slots(objs[i]),
                        LAMBDA mm : mm # None)])

CandidateMats(ids, objs) ==
    IF IdMaterials(ids) # <<>> THEN IdMaterials(ids) ELSE SlotMaterials(objs)

\* line 44: list({m.name: m for m in mats}.values()): one material per name,
\* in the order the names first occur, each name keeping its last material
DedupByName(names, mats) ==
    LET first == SelectSeq([i \in DOMAIN mats |-> i],
                   LAMBDA i : \A j \in 1..(i - 1) :
                                 names[mats[j]] # names[mats[i]])
        lastOf(i) == CHOOSE j \in DOMAIN mats :
                        /\ names[mats[j]] = names[mats[i]]
                        /\ \A k \in DOMAIN mats :
                              names[mats[k]] = names[mats[i]] => k <= j
    IN  [n \in DOMAIN first |-> mats[lastOf(first[n])]]

\* line 56: key in seen
KeySeenNever(seen, key) == FALSE
KeySeen(seen, key) == key \in seen

\* lines 51-59: the curves of one material
RECURSIVE ScanCurves(_, _, _, _)
ScanCurves(names, m, fcs, acc) ==
    IF fcs = <<>> THEN acc
    ELSE LET fcu == Head(fcs)
             dp  == with_node_tree(fcu.data_path)
             key == <<names[m], dp, fcu.array_index>>
         IN  IF fcu.keyframe_points = 0 \/ KeySeen(acc.seen, key)
             THEN ScanCurves(names, m, Tail(fcs), acc)
             ELSE ScanCurves(names, m, Tail(fcs),
                    [seen  |-> acc.seen \cup {key},
                     paths |-> Append(acc.paths,
                                      PathEntry(m, dp, fcu.array_index))])

\* lines 46-59: a material without node tree, animation data or action is
\* skipped
RECURSIVE ScanMats(_, _, _, _)
ScanMats(names, fc, mats, acc) ==
    IF mats = <<>> THEN acc
    ELSE LET m == Head(mats)
         IN  IF node_tree(m) = None \/ fc[node_tree(m)] = <<>>
             THEN ScanMats(names, fc, Tail(mats), acc)
             ELSE ScanMats(names, fc, Tail(mats),
                           ScanCurves(names, m, fc[node_tree(m)], acc))

\* lines 27-31: clear the paths of the existing set, or append a new set
ClearOrNewKeepPaths(kss, ks_name) ==
    IF ks_get(kss, ks_name) # 0 THEN kss
    ELSE Append(kss, [name |-> ks_name, paths |-> <<>>])
ClearOrNew(kss, ks_name) ==
    IF ks_get(kss, ks_name) # 0
    THEN [kss EXCEPT ![ks_get(kss, ks_name)].paths = <<>>]
    ELSE Append(kss, [name |-> ks_name, paths |-> <<>>])

\* the keying sets after the whole function
extract_shader_keying_set(kss, names, fc, ks_name, ids, objs) ==
    LET k0   == ClearOrNew(kss, ks_name)
        i    == ks_get(k0, ks_name)
        mats == DedupByName(names, CandidateMats(ids, objs))
        res  == ScanMats(names, fc, mats, [seen |-> {}, paths |-> k0[i].paths])
    IN  [k0 EXCEPT ![i].paths = res.paths]

\* ------------------------------------------------------- keyframe_insert
\* One keyframe_insert call as the host receives it. index is AllIndices
\* when the call passes none: the host then keys every component.
AllIndices == -1
Call(target, m, dp, idx, frame) ==
    [target |-> target, id |-> m, data_path |-> dp, index |-> idx,
     frame |-> frame]

\* The components of the property one call keys.
KeyedIndices(call) ==
    IF call.index = AllIndices THEN 0..(Length(call.data_path) - 1)
    ELSE {call.index}

\* The curves of the tree after a key on component i of dp: the first curve
\* of (dp, i) gets a point, or a new curve is appended.
KeyCurve(fc, dp, i) ==
    IF \E n \in DOMAIN fc : fc[n].data_path = dp /\ fc[n].array_index = i
    THEN LET n == CHOOSE n \in DOMAIN fc :
                     /\ fc[n].data_path = dp /\ fc[n].array_index = i
                     /\ \A k \in 1..(n - 1) :
                          ~(fc[k].data_path = dp /\ fc[k].array_index = i)
         IN  [fc EXCEPT ![n].keyframe_points = 1]
    ELSE Append(fc, [data_path |-> dp, array_index |-> i,
                     keyframe_points |-> 1])

RECURSIVE KeyCurves(_, _, _, _)
KeyCurves(fc, dp, i, n) ==
    IF i >= n THEN fc ELSE KeyCurves(KeyCurve(fc, dp, i), dp, i + 1, n)

\* nt.keyframe_insert(data_path=dp[, index]) on the node tree
tree_keyframe_insert(fc, dp, idx) ==
    IF idx = AllIndices THEN KeyCurves(fc, dp, 0, Length(dp))
    ELSE KeyCurve(fc, dp, idx)

\* whether the host takes the key (it raises otherwise)
tree_accepts(t, dp) == t # None /\ dp \in TreePaths
mat_accepts(m, dp, idx) == dp \in MatPaths /\ idx < Length(dp)

\* --------------------------------------------------- apply_shader_keying_set
\* line 75: the call made for an indirect entry
IndirectCall(m, dp, idx, frame) == Call("node_tree", m, dp, AllIndices, frame)

\* lines 78-81: the call made for a direct entry
DirectCall(m, dp_full, idx, frame) ==
    IF idx > 0 THEN Call("material", m, dp_full, idx, frame)
    ELSE Call("material", m, dp_full, AllIndices, frame)

\* the frame a call of the pass is stamped with; n calls were made before it
StampMoving(frame, n) == IF frame + n <= MaxFrame THEN frame + n ELSE 1
Stamp(frame, n) == frame

\* lines 69-82: acc is the curves, the calls made and the count so far
RECURSIVE ApplyLoop(_, _, _)
ApplyLoop(paths, frame, acc) ==
    IF paths = <<>> THEN acc
    ELSE LET path    == Head(paths)
             dp_full == path.data_path
             idx     == path.array_index
             at      == Stamp(frame, Len(acc.calls))
         IN  IF startswith_node_tree(dp_full)
             THEN LET dp == strip_node_tree(dp_full)
                      c  == IndirectCall(path.id, dp, idx, at)
                  IN  IF ~tree_accepts(node_tree(path.id), dp)
                      THEN [acc EXCEPT !.raised = TRUE]
                      ELSE ApplyLoop(Tail(paths), frame,
                             [acc EXCEPT
                                !.fcurves[node_tree(path.id)] =
                                    tree_keyframe_insert(@, dp, c.index),
                                !.calls = Append(@, c),
                                !.count = @ + 1])
             ELSE LET c == DirectCall(path.id, dp_full, idx, at)
                  IN  IF ~mat_accepts(path.id, dp_full, c.index)
                      THEN [acc EXCEPT !.raised = TRUE]
                      ELSE ApplyLoop(Tail(paths), frame,
                             [acc EXCEPT !.calls = Append(@, c),
                                         !.count = @ + 1])

apply_shader_keying_set(kss, fc, frame, ks_name) ==
    IF ks_get(kss, ks_name) = 0
    THEN [fcurves |-> fc, calls |-> <<>>, count |-> 0, raised |-> FALSE]
    ELSE ApplyLoop(kss[ks_get(kss, ks_name)].paths, frame,
                   [fcurves |-> fc, calls |-> <<>>, count |-> 0,
                    raised |-> FALSE])

\* ------------------------------------------------------------------ presets
\* lines 96-104 and 210-216: the value at one path entry
EntryValue(dv, path) ==
    IF startswith_node_tree(path.data_path)
    THEN tree_path_resolve(node_tree(path.id), dv,
                           strip_node_tree(path.data_path))
    ELSE mat_path_resolve(path.id, dv, path.data_path)

\* the records of a keying set
CollectData(names, dv, paths) ==
    [i \in DOMAIN paths |->
        [material  |-> names[paths[i].id],
         data_path |-> paths[i].data_path,
         value     |-> EntryValue(dv, paths[i])]]

Resolvable(data) == \A i \in DOMAIN data : data[i].value.kind # "error"
Serialisable(data) == \A i \in DOMAIN data : json_serialisable(data[i].value)

\* lines 105-108: the store after the add; the text and the index are set
\* only when json.dumps returns
AppendPreset(presets, name, data) ==
    Append(presets, [name |-> name,
                     values_json |-> IF Serialisable(data) THEN json_dumps(data)
                                     ELSE EmptyText])

\* save_current_preset: the error message ("" when none), whether it raised,
\* the store and the index
ErrNoSet  == "Select a valid Keying Set first"
ErrNoName == "Enter a preset name"

ValidateNameFirst(kss, set_name, preset_name) ==
    IF preset_name = "" THEN ErrNoName
    ELSE IF ks_get(kss, strip(set_name)) = 0 THEN ErrNoSet
    ELSE ""
Validate(kss, set_name, preset_name) ==
    IF ks_get(kss, strip(set_name)) = 0 THEN ErrNoSet
    ELSE IF preset_name = "" THEN ErrNoName
    ELSE ""

save_current_preset(kss, names, dv, presets, index, set_name, preset_name) ==
    LET err  == Validate(kss, set_name, preset_name)
        data == CollectData(names, dv, kss[ks_get(kss, strip(set_name))].paths)
        keep == [err |-> err, raised |-> FALSE, presets |-> presets,
                 index |-> index]
    IN  IF err # "" THEN keep
        ELSE IF ~Resolvable(data) THEN [keep EXCEPT !.raised = TRUE]
        ELSE IF ~Serialisable(data)
        THEN [keep EXCEPT !.raised = TRUE,
                          !.presets = AppendPreset(presets, preset_name, data)]
        ELSE [keep EXCEPT !.presets = AppendPreset(presets, preset_name, data),
                          !.index = Len(presets)]

\* ------------------------------------------------------ apply_shader_preset
\* line 128: nt.path_resolve(base) finds a socket
Sockets == {<<"s1">>, <<"s2">>}
socket_resolves(t, base) == t # None /\ base \in Sockets
\* line 129: the float socket takes a number; the colour socket takes no scalar
socket_takes(base, val) == base = <<"s1">> /\ val.kind \in {"float", "bool"}

\* line 129: the value written to the socket
WrittenValueZero(val) == 0
WrittenValue(val) == val.v

\* lines 134-137: whether m.keyframe_insert(data_path=dp_full) returns. For a
\* path through node_tree the host decides (through_tree), and only where the
\* path resolves at all.
fallback_accepts(m, dp_full, through_tree) ==
    \/ mat_accepts(m, dp_full, AllIndices)
    \/ /\ startswith_node_tree(dp_full)
       /\ tree_accepts(node_tree(m), strip_node_tree(dp_full))
       /\ through_tree

\* lines 117-137: acc is the socket value, the curves, the calls made, the
\* records skipped and whether the loop raised
RECURSIVE RestoreLoop(_, _, _, _, _)
RestoreLoop(entries, names, frame, through_tree, acc) ==
    IF entries = <<>> THEN acc
    ELSE LET entry   == Head(entries)
             m       == materials_get(names, entry.material)
             dp_full == entry.data_path
             val     == entry.value
             rest    == Tail(entries)
         IN  IF m = None
             THEN RestoreLoop(rest, names, frame, through_tree,
                              [acc EXCEPT !.skipped = @ + 1])
             ELSE IF startswith_node_tree(dp_full) /\ endswith_default_value(dp_full)
             THEN LET tail == strip_node_tree(dp_full)
                      base == strip_default_value(tail)
                  IN  IF ~socket_resolves(node_tree(m), base) \/ ~socket_takes(base, val)
                      THEN [acc EXCEPT !.raised = TRUE]
                      ELSE RestoreLoop(rest, names, frame, through_tree,
                             [acc EXCEPT
                                !.default_value[node_tree(m)] = WrittenValue(val),
                                !.fcurves[node_tree(m)] = tree_keyframe_insert(@,
                                               base \o <<"default_value">>, AllIndices),
                                !.calls = Append(@, Call("socket", m,
                                             base \o <<"default_value">>,
                                             AllIndices, frame))])
             ELSE IF fallback_accepts(m, dp_full, through_tree)
                  THEN RestoreLoop(rest, names, frame, through_tree,
                         [acc EXCEPT !.calls = Append(@,
                             Call("material", m, dp_full, AllIndices, frame))])
                  ELSE RestoreLoop(rest, names, frame, through_tree,
                         [acc EXCEPT !.skipped = @ + 1])

\* line 114
IndexInRange(presets, idx) == ~(idx < 0 \/ idx >= Len(presets))

\* apply_shader_preset: ret is the value returned (when it does not raise)
apply_shader_preset(presets, names, dv, fc, frame, idx, through_tree) ==
    LET keep == [default_value |-> dv, fcurves |-> fc, calls |-> <<>>,
                 skipped |-> 0, raised |-> FALSE, ret |-> FALSE]
    IN  IF ~IndexInRange(presets, idx) THEN keep
        ELSE IF presets[idx + 1].values_json = EmptyText
        THEN [keep EXCEPT !.raised = TRUE]
        ELSE LET r == RestoreLoop(json_loads(presets[idx + 1].values_json),
                                  names, frame, through_tree, keep)
             IN  [r EXCEPT !.ret = ~r.raised]

\* ------------------------------------------------- KS_OT_RemovePreset.execute
RemoveAt(s, i) == SubSeq(s, 1, i) \o SubSeq(s, i + 2, Len(s))

\* line 189
ReclampKeep(i, size) == i
Reclamp(i, size) == Min(i, size - 1)

remove_preset(presets, i) ==
    IF i < 0 \/ i >= Len(presets)
    THEN [presets |-> presets, index |-> i, ret |-> "CANCELLED"]
    ELSE [presets |-> RemoveAt(presets, i),
          index   |-> Reclamp(i, Len(presets) - 1),
          ret     |-> "FINISHED"]

\* ------------------------------------------------- KS_OT_BatchCollect.execute
\* lines 208-220: acc is the store, the count and whether the loop raised
RECURSIVE BatchLoop(_, _, _, _)
BatchLoop(kss, names, dv, acc) ==
    IF kss = <<>> THEN acc
    ELSE LET ks   == Head(kss)
             data == CollectData(names, dv, ks.paths)
         IN  IF ~Resolvable(data) THEN [acc EXCEPT !.raised = TRUE]
             ELSE IF ~Serialisable(data)
             THEN [acc EXCEPT !.raised = TRUE,
                     !.presets = AppendPreset(@, ks.name \o "_preset", data)]
             ELSE BatchLoop(Tail(kss), names, dv,
                    [acc EXCEPT
                       !.presets = AppendPreset(@, ks.name \o "_preset", data),
                       !.cnt = @ + 1])

\* line 221 runs only when the loop returns
batch_collect(kss, names, dv, presets, index) ==
    LET r == BatchLoop(kss, names, dv,
                       [presets |-> presets, cnt |-> 0, raised |-> FALSE])
    IN  [presets |-> r.presets, cnt |-> r.cnt, raised |-> r.raised,
         index |-> IF r.raised THEN index ELSE Len(r.presets) - 1]

\* ------------------------------------------------------------------ inputs
Mat(m) == [type |-> "Material", id |-> m]
Obj(o) == [type |-> "Object", id |-> o]

\* ctx.selected_ids (<<>> where the host has none) and ctx.selected_objects
\* when the button is pressed
SharedMaterial == <<<<>>, <<1, 2>>>>         \* two objects sharing material 1
AllByObjects   == <<<<>>, <<3, 2, 1>>>>      \* materials 2, 1, 3 through slots
AllByIds       == <<<<Mat(3), Mat(1), Mat(2), Mat(1)>>, <<2>>>>
NoMaterial     == <<<<Obj(2)>>, <<>>>>
Selections     == {SharedMaterial, AllByObjects, AllByIds, NoMaterial}

\* what the text fields hold when the button is pressed
NewSetNames   == {"k0", " k2 ", " "}
ApplySetNames == {"k0", " k2 ", "zz"}
PresetNames   == {"p", " "}

Curve(dp, idx, n) == [data_path |-> dp, array_index |-> idx, keyframe_points |-> n]

\* the curves of node tree 1 when the add-on is registered; keyframe_points
\* is 0 for a curve without points and 1 for a curve with points
InitCurves ==
    { <<>>,
      <<Curve(ColorSocket, 0, 1), Curve(ColorSocket, 1, 0), Curve(ValueSocket, 0, 0)>>,
      <<Curve(ValueSocket, 0, 1), Curve(NodeMute, 0, 1), Curve(ValueSocket, 0, 1)>> }

\* the paths a user adds by hand to a keying set: properties of a material
DirectEntries == {PathEntry(3, Roughness, 0), PathEntry(3, DiffuseColor, 1)}

\* the renames a user makes: a material and its new name
Renames == {<<1, "D">>, <<3, "A">>}

\* the keying sets of the scene when the add-on is registered: none, or one
\* the user made by hand
InitSets == {<<>>, <<[name |-> "k0", paths |-> <<PathEntry(3, Roughness, 0)>>]>>}

NoOp == [op |-> "register", name |-> "", set |-> "", sel |-> <<>>, frame |-> 0,
         idx |-> 0, ret |-> 0, err |-> "", raised |-> FALSE, calls |-> <<>>,
         skipped |-> 0, again |-> FALSE, before |-> 0]

\* ------------------------------------------------------------------- state
\* register(): lines 276-280; the sockets of the two trees hold
\* different values, tree 1 has any of the curves above and tree 2 one curve
Init ==
    /\ matName = <<"A", "B", "C">>
    /\ default_value = <<MaxValue, 0>>
    /\ \E fc \in InitCurves : fcurves = <<fc, <<Curve(ValueSocket, 0, 1)>>>>
    /\ keying_sets \in InitSets
    /\ active_ks = IF keying_sets = <<>> THEN "" ELSE "k0"
    /\ shader_presets = <<>>
    /\ shader_preset_index = 0
    /\ last = NoOp

\* ------------------------------------------------------------ host actions
Host == [NoOp EXCEPT !.op = "host"]

Rename ==
    \E r \in Renames :
        /\ \A k \in Mats : matName[k] # r[2]
        /\ matName' = [matName EXCEPT ![r[1]] = r[2]]
        /\ last' = Host
        /\ UNCHANGED <<default_value, fcurves, keying_sets,
                       active_ks, shader_presets, shader_preset_index>>

\* the list of the panel: a click selects a preset
SelectPreset ==
    \E i \in 0..(Len(shader_presets) - 1) :
        /\ i # shader_preset_index
        /\ shader_preset_index' = i
        /\ last' = Host
        /\ UNCHANGED <<matName, default_value, fcurves,
                       keying_sets, active_ks, shader_presets>>

\* a path added by hand to the active keying set; the host refuses a path
\* the set already has
AddPath ==
    \E k \in {ks_get(keying_sets, active_ks)} \ {0}, e \in DirectEntries :
        /\ e \notin Range(keying_sets[k].paths)
        /\ Cardinality({i \in DOMAIN keying_sets[k].paths :
               ~startswith_node_tree(keying_sets[k].paths[i].data_path)}) < MaxAdded
        /\ keying_sets' = [keying_sets EXCEPT ![k].paths = Append(@, e)]
        /\ last' = Host
        /\ UNCHANGED <<matName, default_value, fcurves,
                       active_ks, shader_presets, shader_preset_index>>

\* ---------------------------------------------------------------- operators
\* KS_OT_ExtractShader.execute, the name field holding one of names and the
\* selection being one of sels
ExtractShader(names, sels) ==
    \E raw \in names, sel \in sels :
        LET name == strip(raw)
            kss  == extract_shader_keying_set(keying_sets, matName, fcurves,
                       name, sel[1], sel[2])
        IN  /\ IF name = ""
               THEN /\ last' = [NoOp EXCEPT !.op = "extract", !.err = "Enter a Keying Set name"]
                    /\ UNCHANGED <<keying_sets, active_ks>>
               ELSE /\ keying_sets' = kss
                    /\ active_ks' = name
                    /\ last' = [NoOp EXCEPT
                          !.op = "extract", !.name = name, !.sel = sel,
                          !.ret = Len(kss[ks_get(kss, name)].paths),
                          !.before = Len(keying_sets),
                          !.again = /\ last.op = "extract" /\ last.err = ""
                                    /\ last.name = name /\ last.sel = sel]
            /\ UNCHANGED <<matName, default_value, fcurves,
                           shader_presets, shader_preset_index>>

\* KS_OT_ApplyShader.execute
ApplyShader ==
    \E raw \in ApplySetNames, frame_current \in 1..MaxFrame :
        LET name == strip(raw)
            r    == apply_shader_keying_set(keying_sets, fcurves, frame_current, name)
        IN  /\ fcurves' = r.fcurves
            /\ last' = [NoOp EXCEPT !.op = "apply", !.name = name, !.ret = r.count,
                                    !.frame = frame_current,
                                    !.raised = r.raised, !.calls = r.calls]
            /\ UNCHANGED <<matName, default_value, keying_sets,
                           active_ks, shader_presets, shader_preset_index>>

\* KS_OT_SavePreset.execute
SavePreset ==
    \E set_name \in ApplySetNames, raw \in PresetNames :
        LET sn == strip(raw)
            r  == save_current_preset(keying_sets, matName, default_value,
                     shader_presets, shader_preset_index, set_name, sn)
        IN  /\ Len(shader_presets) < MaxPresets
            /\ shader_presets' = r.presets
            /\ shader_preset_index' = r.index
            /\ last' = [NoOp EXCEPT !.op = "save", !.name = sn, !.set = strip(set_name),
                                    !.err = r.err, !.raised = r.raised,
                                    !.ret = IF r.err = "" /\ ~r.raised THEN 1 ELSE 0,
                                    !.before = Len(shader_presets)]
            /\ UNCHANGED <<matName, default_value, fcurves,
                           keying_sets, active_ks>>

\* KS_OT_RemovePreset.execute
RemovePreset ==
    LET r == remove_preset(shader_presets, shader_preset_index)
    IN  /\ shader_presets' = r.presets
        /\ shader_preset_index' = r.index
        /\ last' = [NoOp EXCEPT !.op = "remove", !.idx = shader_preset_index,
                                !.err = r.ret, !.before = Len(shader_presets)]
        /\ UNCHANGED <<matName, default_value, fcurves,
                       keying_sets, active_ks>>

\* KS_OT_ApplyPreset.execute
ApplyPreset ==
    \E through_tree \in BOOLEAN, frame_current \in 1..MaxFrame :
        LET r == apply_shader_preset(shader_presets, matName, default_value,
                    fcurves, frame_current, shader_preset_index, through_tree)
        IN  /\ default_value' = r.default_value
            /\ fcurves' = r.fcurves
            /\ last' = [NoOp EXCEPT !.op = "apply_preset", !.idx = shader_preset_index,
                          !.frame = frame_current,
                          !.ret = IF r.ret THEN 1 ELSE 0, !.raised = r.raised,
                          !.calls = r.calls, !.skipped = r.skipped,
                          !.set = last.set,
                          !.again = /\ last.op = "save" /\ last.ret = 1
                                    /\ shader_preset_index = Len(shader_presets) - 1]
            /\ UNCHANGED <<matName, keying_sets, active_ks,
                           shader_presets, shader_preset_index>>

\* KS_OT_BatchCollect.execute
BatchCollect ==
    LET r == batch_collect(keying_sets, matName, default_value,
                           shader_presets, shader_preset_index)
    IN  /\ Len(shader_presets) + Len(keying_sets) <= MaxPresets
        /\ shader_presets' = r.presets
        /\ shader_preset_index' = r.index
        /\ last' = [NoOp EXCEPT !.op = "batch", !.ret = r.cnt, !.raised = r.raised,
                                !.before = Len(shader_presets)]
        /\ UNCHANGED <<matName, default_value, fcurves,
                       keying_sets, active_ks>>

\* The keying-set handlers, under a host that adds paths by hand.
NextKeying ==
    \/ AddPath \/ ExtractShader({" k2 ", " "}, Selections) \/ ApplyShader

SpecKeying == Init /\ [][NextKeying]_vars

\* Capture and restore, under a host that renames materials.
NextCapture ==
    \/ Rename \/ ExtractShader({" k2 ", " "}, {AllByObjects, NoMaterial})
    \/ SavePreset \/ ApplyPreset

SpecCapture == Init /\ [][NextCapture]_vars

\* The preset store, under a host that selects presets in the list.
NextStore ==
    \/ SelectPreset \/ ExtractShader(NewSetNames, {SharedMaterial, NoMaterial})
    \/ SavePreset \/ RemovePreset \/ BatchCollect

SpecStore == Init /\ [][NextStore]_vars

\* ------------------------------------------------------------------ claims
KS(name) == keying_sets[ks_get(keying_sets, name)]
Exists(name) == ks_get(keying_sets, name) # 0
Triple(e) == <<e.id, e.data_path, e.array_index>>

\* the (path, index) pairs of the curves of tree t that hold points
AnimatedPaths(t) ==
    {<<with_node_tree(fcurves[t][i].data_path), fcurves[t][i].array_index>> :
        i \in {j \in DOMAIN fcurves[t] : fcurves[t][j].keyframe_points # 0}}

\* C1: after extract the keying set built holds no two entries with the same
\* (owner, path, index), whatever was selected and in whatever order; it
\* holds one entry per animated (path, index) of a selected material that
\* has a node tree, so two selected objects sharing one material with one
\* animated path give a count of 1.
C1_NoDuplicateEntries ==
    (last.op = "extract" /\ last.err = "") =>
        LET paths == KS(last.name).paths
            mats  == Range(CandidateMats(last.sel[1], last.sel[2]))
        IN  /\ \A i, j \in DOMAIN paths :
                  Triple(paths[i]) = Triple(paths[j]) => i = j
            /\ last.ret = Len(paths)
            /\ {Triple(paths[i]) : i \in DOMAIN paths}
                 = UNION {{<<m, a[1], a[2]>> : a \in AnimatedPaths(node_tree(m))} :
                            m \in {n \in mats : node_tree(n) # None}}

C1_Witness ==
    /\ last.op = "extract" /\ last.err = ""
    /\ last.sel = SharedMaterial
    /\ last.ret = 1

\* C2: extract run twice in a row with the same name and the same selection
\* leaves the keying sets, the active set and the count as the first run
\* left them, with one set of that name.
C2_ExtractIdempotent ==
    [][(/\ last.op = "extract" /\ last.err = ""
        /\ last'.op = "extract" /\ last'.err = ""
        /\ last'.name = last.name /\ last'.sel = last.sel)
       => /\ keying_sets' = keying_sets
          /\ active_ks' = active_ks
          /\ last'.ret = last.ret
          /\ Cardinality({i \in DOMAIN keying_sets' :
                             keying_sets'[i].name = last.name}) = 1]_vars

C2_Witness ==
    /\ last.op = "extract" /\ last.again
    /\ last.ret >= 1

C4_SaveValidation ==
    [][(last'.op = "save") =>
         LET missing == ks_get(keying_sets, last'.set) = 0
         IN  /\ missing => last'.err = ErrNoSet
             /\ (~missing /\ last'.name = "") => last'.err = ErrNoName
             /\ (~missing /\ last'.name # "") => last'.err = ""
             /\ last'.err # "" =>
                  /\ last'.ret = 0
                  /\ shader_presets' = shader_presets
                  /\ shader_preset_index' = shader_preset_index]_vars

C4_Witness ==
    /\ last.op = "save" /\ last.err = ErrNoSet
    /\ last.name = ""
    /\ keying_sets # <<>>

\* C5: removing the preset at an in-range active index removes that one
\* entry, keeps the others in order, and sets the index to
\* min(old index, new size - 1), which is -1 exactly when the store is empty.
C5_RemoveReclamps ==
    [][(last'.op = "remove" /\ IndexInRange(shader_presets, shader_preset_index))
       => LET i == shader_preset_index
          IN  /\ Len(shader_presets') = Len(shader_presets) - 1
              /\ \A j \in 1..i : shader_presets'[j] = shader_presets[j]
              /\ \A j \in (i + 1)..Len(shader_presets') :
                    shader_presets'[j] = shader_presets[j + 1]
              /\ shader_preset_index' = Min(i, Len(shader_presets') - 1)
              /\ (shader_preset_index' = -1) <=> (shader_presets' = <<>>)]_vars

C5_Witness ==
    /\ last.op = "remove" /\ last.err = "FINISHED"
    /\ Len(shader_presets) >= 1
    /\ last.idx = Len(shader_presets)
    /\ shader_preset_index = Len(shader_presets) - 1

\* C6: batch_collect appends one preset per keying set, named
\* <set>_preset, in the order of the sets; the count is the number of sets
\* and the index ends at the last preset.
C6_BatchOnePerSet ==
    (last.op = "batch") =>
        /\ ~last.raised
        /\ last.ret = Len(keying_sets)
        /\ Len(shader_presets) = last.before + Len(keying_sets)
        /\ \A k \in DOMAIN keying_sets :
              shader_presets[last.before + k].name = keying_sets[k].name \o "_preset"
        /\ shader_preset_index = Len(shader_presets) - 1

\* C7: restoring the preset just captured leaves the live value at every
\* captured path as it was at the capture.
C7_CaptureRestoreRoundTrip ==
    [][(/\ last.op = "save" /\ last.ret = 1
        /\ last'.op = "apply_preset"
        /\ last'.idx = Len(shader_presets) - 1)
       => \A i \in DOMAIN KS(last.set).paths :
              EntryValue(default_value', KS(last.set).paths[i])
                = EntryValue(default_value, KS(last.set).paths[i])]_vars

C7_Witness ==
    /\ last.op = "apply_preset" /\ last.again /\ last.ret = 1
    /\ \E i, j \in DOMAIN last.calls :
          /\ last.calls[i].target = "socket" /\ last.calls[j].target = "socket"
          /\ last.calls[i].id # last.calls[j].id
    /\ \E i \in DOMAIN last.calls : last.calls[i].target = "material"

\* C8: for an in-range index whose preset text deserialises,
\* apply_shader_preset returns true: no record makes the restore fail.
C8_RestoreNeverAborts ==
    (/\ last.op = "apply_preset"
     /\ IndexInRange(shader_presets, last.idx)
     /\ shader_presets[last.idx + 1].values_json # EmptyText)
    => (~last.raised /\ last.ret = 1)

\* C9: replay commits, for every indirect entry, on the owner's node tree,
\* at the stripped path and at the entry's own index.
C9_IndirectAtOwnIndex ==
    (last.op = "apply" /\ Exists(last.name) /\ ~last.raised) =>
        \A i \in DOMAIN KS(last.name).paths :
            LET e == KS(last.name).paths[i]
            IN  startswith_node_tree(e.data_path) =>
                  /\ last.calls[i].target = "node_tree"
                  /\ last.calls[i].id = e.id
                  /\ last.calls[i].data_path = strip_node_tree(e.data_path)
                  /\ KeyedIndices(last.calls[i]) = {e.array_index}

\* C10: whenever the preset store is not empty, the active index is within
\* it.
C10_IndexInStore ==
    shader_presets # <<>> =>
        (0 <= shader_preset_index /\ shader_preset_index < Len(shader_presets))

====
